---------------------------- MODULE Spec2Model ----------------------------
(***************************************************************************)
(* A model of the arctyk staging pipeline: the file-arrival gate           *)
(* (wait_for_file), the staging uploader (valid_put_options, sf_put,       *)
(* put_execute), the shared exit contract (RepoExec.ExitHandler), the      *)
(* compressor (compress_files_in_folder), the extractors (extract_bcp,     *)
(* extract_odbc_dba) and the loader (copyinto_execute).  Each component    *)
(* has a specification of its own, in which the others stay idle.          *)
(*                                                                         *)
(* Text is modelled as a sequence of symbols: a symbol is one character    *)
(* (",", "=", " ", "/", "\\", a digit) or one word that no operation of    *)
(* the code splits ("PARALLEL", "true", "FOO").                            *)
(***************************************************************************)
EXTENDS Integers, Sequences, FiniteSets, TLC

(***************************************************************************)
(* Bounds of the model.                                                    *)
(***************************************************************************)
\* largest wait_time, in seconds
MaxWait == 11
\* clock resolution: ticks per second
TicksPerSecond == 4
\* longest time, in ticks, that one pass of the code between two clock
\* readings takes beyond the sleep itself (kept under half a second)
MaxDrift == 1
\* most options in one option string
MaxOptions == 2
\* most result rows of one PUT
MaxPutRows == 1
\* longest exception text beyond the 1023 characters kept
MaxExcess == 1
\* most files that match file_pattern
MaxFiles == 5
\* largest one-digit files_per_batch
MaxBatchSize == 3
\* most files of one call whose conversion fails
MaxFailures == 1
\* most result rows of one COPY INTO
MaxResultRows == 2
\* largest rows_loaded of one result row
MaxRowsLoaded == 1

(***************************************************************************)
(* Program constants.                                                      *)
(***************************************************************************)
\* time.sleep(5)
SleepSeconds == 5

SleepTicks == SleepSeconds * TicksPerSecond

(***************************************************************************)
(* Text helpers (Python str methods on symbol sequences).                  *)
(***************************************************************************)
\* str.replace(old, new) for a one-symbol old and a text new
RECURSIVE Replace(_, _, _)
Replace(s, old, new) ==
    IF s = <<>> THEN <<>>
    ELSE (IF Head(s) = old THEN new ELSE <<Head(s)>>) \o Replace(Tail(s), old, new)

\* str.rstrip(): trailing blanks removed
RECURSIVE RStrip(_)
RStrip(s) ==
    IF s = <<>> THEN <<>>
    ELSE IF s[Len(s)] = " " THEN RStrip(SubSeq(s, 1, Len(s) - 1))
    ELSE s

\* str.lstrip(): leading blanks removed
RECURSIVE LStrip(_)
LStrip(s) ==
    IF s = <<>> THEN <<>>
    ELSE IF Head(s) = " " THEN LStrip(Tail(s))
    ELSE s

\* str.strip()
Strip(s) == LStrip(RStrip(s))

\* str.upper() of one symbol
UpperSym(c) ==
    CASE c = "parallel" -> "PARALLEL"
      [] c = "overwrite" -> "OVERWRITE"
      [] c = "true" -> "TRUE"
      [] c = "false" -> "FALSE"
      [] c = "parquet" -> "PARQUET"
      [] c = "csv" -> "CSV"
      [] OTHER -> c

\* str.upper()
Upper(s) == [i \in 1 .. Len(s) |-> UpperSym(s[i])]

\* str.split(sep): the pieces between the separators, empty pieces kept
RECURSIVE Split(_, _)
Split(s, sep) ==
    IF \E i \in 1 .. Len(s) : s[i] = sep
    THEN LET i == CHOOSE j \in 1 .. Len(s) :
                      s[j] = sep /\ \A k \in 1 .. j - 1 : s[k] # sep
         IN  <<SubSeq(s, 1, i - 1)>> \o Split(SubSeq(s, i + 1, Len(s)), sep)
    ELSE <<s>>

\* sep.join(parts)
RECURSIVE Join(_, _)
Join(parts, sep) ==
    IF parts = <<>> THEN <<>>
    ELSE IF Len(parts) = 1 THEN parts[1]
    ELSE parts[1] \o sep \o Join(Tail(parts), sep)

Digits == {"0", "1", "4"}

\* str.isdigit(): not empty, and every character a digit
IsDigit(s) == s # <<>> /\ \A i \in 1 .. Len(s) : s[i] \in Digits

\* a slice that keeps the whole text
Truncate_Keeps(n, limit) == n

\* the elements of a sequence
Range(s) == {s[i] : i \in 1 .. Len(s)}

\* text[:limit] of a text of n characters
Truncate(n, limit) == IF n > limit THEN limit ELSE n

(***************************************************************************)
(* FileArrivalGate: wait_for_file                                          *)
(***************************************************************************)
VARIABLES
    w_pc,            \* position in wait_for_file: call, first, loop, sleep, done
    check_exist,     \* argument
    wait_response,   \* argument
    source_path,     \* argument, then the fixed path
    wait_time,       \* argument, seconds
    trigger_given,   \* whether trigger_file_pattern is non-empty
    wait_filename,   \* which pattern is waited for: "trigger" or "data"
    files,           \* patterns that have a matching file in the directory
    now,             \* the clock, in ticks
    start_time,      \* time.time() at line 344
    w_ret_code,      \* returned code
    w_ret_msg,       \* returned message (its kind)
    sleeps,          \* number of time.sleep(5) calls made
    finds,           \* number of find_files calls made
    poll_finds,      \* number of find_files calls made inside the loop
    last_poll,       \* elapsed ticks at the latest find_files of the loop, -1 if none
    arrived_early    \* the awaited file arrived during the call, before wait_time elapsed

wait_vars == <<w_pc, check_exist, wait_response, source_path, wait_time,
               trigger_given, wait_filename, files, now, start_time,
               w_ret_code, w_ret_msg, sleeps, finds, poll_finds, last_poll,
               arrived_early>>

VARIABLES
    p_pc,            \* position in sf_put: call, build, execute, message, handler, returned, exited
    put_options_in,  \* argument put_options: [none |-> is it None, s |-> its text]
    pass_put,        \* first value returned by valid_put_options
    put_options,     \* second value returned by valid_put_options
    put_mode,        \* argument
    sf_stage,        \* destination namespace
    put_sql,         \* the PUT statement
    executed,        \* statements handed to crsr.execute, in order
    put_rows,        \* number of result rows of the PUT
    audit,           \* audit events sent to RepoExec.AuditLog, in order
    err,             \* the exception being handled: [kind, len]
    exit_call,       \* the result_code sf_put or put_execute handed to ExitHandler
    exit_status,     \* status the process ended with, when p_pc = "exited"
    p_result         \* value returned by sf_put

put_vars == <<p_pc, put_options_in, pass_put, put_options, put_mode, sf_stage,
              put_sql, executed, put_rows, audit, err, exit_call, exit_status,
              p_result>>

VARIABLES
    x_pc,            \* position in ExitHandler: call, exit, exited
    x_job_key,       \* environment variable WSL_JOB_KEY
    x_job_name,      \* environment variable WSL_JOB_NAME
    x_result_code,   \* argument result_code
    x_printed,       \* what was printed, in order
    x_exit_arg,      \* exit_code, the value handed to sys.exit
    x_status         \* exit status of the process

exit_vars == <<x_pc, x_job_key, x_job_name, x_result_code, x_printed, x_exit_arg,
               x_status>>

VARIABLES
    c_pc,            \* position in compress_files_in_folder: call, pool, submit, join, returned, raised
    files_per_batch, \* argument, a text
    file_list,       \* the matched files, in listing order
    c_fate,          \* what the conversion of each file comes to: ok, raise, crash
    batches,         \* the batches, in order
    c_batch,         \* index of the batch being processed
    c_next,          \* index, in the batch, of the next file to submit
    c_state,         \* each file's work item: none, queued, running, done, failed, crashed, lost
    c_broken,        \* the executor of the batch is marked broken
    c_exc            \* the exception that left compress_files_in_folder, "" if none

compress_vars == <<c_pc, files_per_batch, file_list, c_fate, batches, c_batch,
                   c_next, c_state, c_broken, c_exc>>

VARIABLES
    e_pc,            \* position in the extractor: call, run, detect, convert, cleanup, returned, raised
    e_backend,       \* bcp (extract_bcp) or odbc (extract_odbc_dba)
    e_dat,           \* <table>.dat in work_dir: absent, good, empty, bad (unparsable)
    e_sql_tmp,       \* <table>.sql_tmp is in work_dir
    e_parquet,       \* <table>.parquet in work_dir: absent, stale, new
    e_proc,          \* outcome of the external process: "", ok, failed
    e_converted,     \* outcome of the conversion: "", ok, failed
    e_ret_code,      \* ret_code
    e_audit,         \* audit events sent, in order
    e_deleted,       \* files the call removed
    e_exc            \* the exception that left the extractor, "" if none

extract_vars == <<e_pc, e_backend, e_dat, e_sql_tmp, e_parquet, e_proc,
                  e_converted, e_ret_code, e_audit, e_deleted, e_exc>>

VARIABLES
    l_pc,            \* position in copyinto_execute: call, rows, summary, format, handler, returned, exited
    l_results,       \* the result rows of the COPY INTO
    l_row,           \* index of the next result row
    rows_loaded_sum, \* crt_copyinto_message: rows_loaded_sum
    files_loaded_count, \* crt_copyinto_message: files_loaded_count
    l_audit,         \* audit events sent, in order
    l_sink,          \* what the audit sink answers: a result set, or nothing
    l_ret_code,      \* ret_code_fmt
    l_err,           \* the exception being handled: [kind, len]
    l_exit_call,     \* the result_code handed to ExitHandler
    l_exit_status    \* status the process ended with, when l_pc = "exited"

copy_vars == <<l_pc, l_results, l_row, rows_loaded_sum, files_loaded_count,
               l_audit, l_sink, l_ret_code, l_err, l_exit_call, l_exit_status>>

VARIABLES
    pp_pc,           \* position in parse_path: call, returned, raised
    pp_path,         \* argument path
    pp_directory,    \* returned directory
    pp_filename,     \* returned filename
    pp_file_extension, \* returned file_extension
    pp_exc           \* the exception raised, "" if none

parse_vars == <<pp_pc, pp_path, pp_directory, pp_filename, pp_file_extension, pp_exc>>

VARIABLES
    o_pc,            \* position of one batch of the compressor: call, listed, named
    o_method,        \* argument compress_method
    o_pattern,       \* argument file_pattern
    o_listing,       \* the file names of the directory
    o_batch,         \* the files of the batch: the names that match file_pattern
    o_output         \* the path each worker of the batch writes, <<>> for none

names_vars == <<o_pc, o_method, o_pattern, o_listing, o_batch, o_output>>

vars == <<wait_vars, put_vars, exit_vars, compress_vars, extract_vars, copy_vars,
          parse_vars, names_vars>>

\* what the actions of one component leave alone: the other components
wait_rest == <<put_vars, exit_vars, compress_vars, extract_vars, copy_vars,
    parse_vars, names_vars>>

put_rest == <<wait_vars, exit_vars, compress_vars, extract_vars, copy_vars,
    parse_vars, names_vars>>

exit_rest == <<wait_vars, put_vars, compress_vars, extract_vars, copy_vars,
    parse_vars, names_vars>>

compress_rest == <<wait_vars, put_vars, exit_vars, extract_vars, copy_vars,
    parse_vars, names_vars>>

extract_rest == <<wait_vars, put_vars, exit_vars, compress_vars, copy_vars,
    parse_vars, names_vars>>

copy_rest == <<wait_vars, put_vars, exit_vars, compress_vars, extract_vars,
    parse_vars, names_vars>>

parse_rest == <<wait_vars, put_vars, exit_vars, compress_vars, extract_vars,
    copy_vars, names_vars>>

names_rest == <<wait_vars, put_vars, exit_vars, compress_vars, extract_vars,
    copy_vars, parse_vars>>

\* sf_put is not running
PutParked ==
    /\ p_pc = "idle"
    /\ put_options_in = [none |-> TRUE, s |-> <<>>]
    /\ pass_put = FALSE
    /\ put_options = <<>>
    /\ put_mode = ""
    /\ sf_stage = <<>>
    /\ put_sql = <<>>
    /\ executed = <<>>
    /\ put_rows = 0
    /\ audit = <<>>
    /\ err = [kind |-> "none", len |-> 0]
    /\ exit_call = <<>>
    /\ exit_status = 0
    /\ p_result = <<>>

\* wait_for_file is not running
WaitParked ==
    /\ w_pc = "idle"
    /\ check_exist = ""
    /\ wait_response = ""
    /\ source_path = <<>>
    /\ wait_time = 0
    /\ trigger_given = FALSE
    /\ wait_filename = ""
    /\ files = {}
    /\ now = 0
    /\ start_time = 0
    /\ w_ret_code = ""
    /\ w_ret_msg = ""
    /\ sleeps = 0
    /\ finds = 0
    /\ poll_finds = 0
    /\ last_poll = -1
    /\ arrived_early = FALSE

\* ExitHandler is not running
ExitParked ==
    /\ x_pc = "idle"
    /\ x_job_key = [set |-> FALSE, v |-> ""]
    /\ x_job_name = [set |-> FALSE, v |-> ""]
    /\ x_result_code = [t |-> "int", v |-> 0]
    /\ x_printed = <<>>
    /\ x_exit_arg = <<>>
    /\ x_status = 0

\* compress_files_in_folder is not running
CompressParked ==
    /\ c_pc = "idle"
    /\ files_per_batch = <<>>
    /\ file_list = <<>>
    /\ c_fate = <<>>
    /\ batches = <<>>
    /\ c_batch = 0
    /\ c_next = 0
    /\ c_state = <<>>
    /\ c_broken = FALSE
    /\ c_exc = ""

\* no extractor is running
ExtractParked ==
    /\ e_pc = "idle"
    /\ e_backend = ""
    /\ e_dat = "absent"
    /\ e_sql_tmp = FALSE
    /\ e_parquet = "absent"
    /\ e_proc = ""
    /\ e_converted = ""
    /\ e_ret_code = ""
    /\ e_audit = <<>>
    /\ e_deleted = {}
    /\ e_exc = ""

\* copyinto_execute is not running
CopyParked ==
    /\ l_pc = "idle"
    /\ l_results = <<>>
    /\ l_row = 0
    /\ rows_loaded_sum = 0
    /\ files_loaded_count = 0
    /\ l_audit = <<>>
    /\ l_sink = <<>>
    /\ l_ret_code = <<>>
    /\ l_err = [kind |-> "none", len |-> 0]
    /\ l_exit_call = <<>>
    /\ l_exit_status = 0

\* parse_path is not running
ParseParked ==
    /\ pp_pc = "idle"
    /\ pp_path = <<>>
    /\ pp_directory = <<>>
    /\ pp_filename = <<>>
    /\ pp_file_extension = <<>>
    /\ pp_exc = ""

\* no batch is being named
NamesParked ==
    /\ o_pc = "idle"
    /\ o_method = ""
    /\ o_pattern = <<>>
    /\ o_listing = {}
    /\ o_batch = {}
    /\ o_output = <<>>

\* the components a specification of one component leaves idle
OthersParked == ParseParked /\ NamesParked

\* the directories of the file system
Dirs == { <<"C:", "/", "in">> }

PathInputs ==
    { <<"C:", "/", "in">>, <<"C:", "\\", "in">>, <<"C:", "/", "in", " ">>,
      <<"C:", "/", "gone">> }

CheckExistValues == {"true", "false", "True"}

WaitResponseValues == {"Error", "Fatal Error", "Warning", "FatalError", ""}

WaitTimes == 0 .. MaxWait

FileKinds == {"trigger", "data"}

fix_path(directory) == RStrip(Replace(directory, "\\", <<"/">>))

\* a missing existence test: every folder is taken to exist
path_exists_Always(p) == TRUE

\* os.path.exists
path_exists(p) == p \in Dirs

\* the trigger pattern is ignored
set_wait_file_IgnoresTrigger(trigger) == "data"

\* set_wait_file: the trigger pattern when one is given, else the file pattern
set_wait_file(trigger) == IF trigger THEN "trigger" ELSE "data"

\* find_files: truthy when a file of the directory matches the wait pattern
find_files(present, name) == name \in present

\* round(): Python rounds to the nearest integer, a tie to the even one
Round(ticks) ==
    LET q == ticks \div TicksPerSecond
        r == ticks % TicksPerSecond
    IN  IF 2 * r < TicksPerSecond THEN q
        ELSE IF 2 * r > TicksPerSecond THEN q + 1
        ELSE IF q % 2 = 0 THEN q ELSE q + 1

\* line 356: the caller says the file must already be there
no_wait_CaseBug(check) == check = "False"

no_wait(check) == check = "false"

\* line 369: the wait limit is not reached yet
still_waiting_Inclusive(elapsed, limit) == elapsed <= limit

still_waiting(elapsed, limit) == elapsed < limit

\* an unrecognised wait_response falls back to Error
TimeoutCode_Fallback(response) ==
    IF response = "Error" THEN "-2"
    ELSE IF response = "Fatal Error" THEN "-3"
    ELSE IF response = "Warning" THEN "-1"
    ELSE "-2"

\* the code returned when the wait limit is reached
TimeoutCode(response) ==
    IF response = "Error" THEN "-2"
    ELSE IF response = "Fatal Error" THEN "-3"
    ELSE IF response = "Warning" THEN "-1"
    ELSE "-3"

TimeoutMsg(response) ==
    IF response \in {"Error", "Fatal Error", "Warning"} THEN "WaitLimitReached"
    ELSE "InvalidWaitResponse"

InitWait ==
    /\ OthersParked
    /\ w_pc = "call"
    /\ check_exist \in CheckExistValues
    /\ wait_response \in WaitResponseValues
    /\ source_path \in PathInputs
    /\ wait_time \in WaitTimes
    /\ trigger_given \in BOOLEAN
    /\ wait_filename = ""
    /\ files \in SUBSET FileKinds
    /\ now = 0
    /\ start_time = 0
    /\ w_ret_code = ""
    /\ w_ret_msg = ""
    /\ sleeps = 0
    /\ finds = 0
    /\ poll_finds = 0
    /\ last_poll = -1
    /\ arrived_early = FALSE
    /\ PutParked
    /\ ExitParked
    /\ CompressParked
    /\ ExtractParked
    /\ CopyParked

WaitReturn(code, msg) ==
    /\ w_pc' = "done"
    /\ w_ret_code' = code
    /\ w_ret_msg' = msg

\* lines 326-344: fix the path, fail when the folder is missing, else pick the
\* wait file and read the clock
WaitEnter ==
    /\ w_pc = "call"
    /\ source_path' = fix_path(source_path)
    /\ IF ~path_exists(fix_path(source_path))
       THEN /\ WaitReturn("-3", "FolderNotFound")
            /\ UNCHANGED <<wait_filename, start_time>>
       ELSE /\ wait_filename' = set_wait_file(trigger_given)
            /\ start_time' = now
            /\ w_pc' = "first"
            /\ UNCHANGED <<w_ret_code, w_ret_msg>>
    /\ UNCHANGED <<check_exist, wait_response, wait_time, trigger_given, files,
                   now, sleeps, finds, poll_finds, last_poll>>
    /\ UNCHANGED arrived_early
    /\ UNCHANGED wait_rest

\* lines 346-361: the first find_files, and the check_exist branch
WaitFirstFind ==
    /\ w_pc = "first"
    /\ finds' = finds + 1
    /\ IF find_files(files, wait_filename)
       THEN WaitReturn("1", "FileFound") /\ now' = now
       ELSE IF no_wait(check_exist)
       THEN WaitReturn("-3", "NotFoundCheckExistFalse") /\ now' = now
       ELSE /\ w_pc' = "loop"
            /\ \E d \in 0 .. MaxDrift : now' = now + d
            /\ UNCHANGED <<w_ret_code, w_ret_msg>>
    /\ UNCHANGED <<check_exist, wait_response, source_path, wait_time,
                   trigger_given, wait_filename, files, start_time, sleeps,
                   poll_finds, last_poll>>
    /\ UNCHANGED arrived_early
    /\ UNCHANGED wait_rest

\* lines 364-405: one pass of the loop up to the sleep
WaitLoop ==
    /\ w_pc = "loop"
    /\ LET elapsed_time == Round(now - start_time)
       IN  IF still_waiting(elapsed_time, wait_time)
           THEN /\ finds' = finds + 1
                /\ poll_finds' = poll_finds + 1
                /\ last_poll' = now - start_time
                /\ IF find_files(files, wait_filename)
                   THEN WaitReturn("1", "FileFound")
                   ELSE /\ w_pc' = "sleep"
                        /\ UNCHANGED <<w_ret_code, w_ret_msg>>
           ELSE /\ WaitReturn(TimeoutCode(wait_response), TimeoutMsg(wait_response))
                /\ UNCHANGED <<finds, poll_finds, last_poll>>
    /\ UNCHANGED <<check_exist, wait_response, source_path, wait_time,
                   trigger_given, wait_filename, files, now, start_time, sleeps>>
    /\ UNCHANGED arrived_early
    /\ UNCHANGED wait_rest

\* line 407: time.sleep(5)
WaitSleep ==
    /\ w_pc = "sleep"
    /\ sleeps' = sleeps + 1
    /\ \E d \in 0 .. MaxDrift : now' = now + SleepTicks + d
    /\ w_pc' = "loop"
    /\ UNCHANGED <<check_exist, wait_response, source_path, wait_time,
                   trigger_given, wait_filename, files, start_time, w_ret_code,
                   w_ret_msg, finds, poll_finds, last_poll>>
    /\ UNCHANGED arrived_early
    /\ UNCHANGED wait_rest

\* the instants at which a file can arrive in the current position: the
\* clock reading, and during time.sleep(5) also the end of the sleep
ArrivalInstants == IF w_pc = "sleep" THEN {now, now + SleepTicks} ELSE {now}

\* the environment: a file matching a pattern arrives in the directory, and
\* stays; for the awaited file it is noted whether wait_time had elapsed
FileArrives ==
    /\ w_pc \in {"first", "loop", "sleep"}
    /\ \E k \in FileKinds \ files :
          /\ files' = files \cup {k}
          /\ IF k = wait_filename
             THEN \E t \in ArrivalInstants :
                     arrived_early' = (t - start_time < wait_time * TicksPerSecond)
             ELSE UNCHANGED arrived_early
    /\ UNCHANGED <<w_pc, check_exist, wait_response, source_path, wait_time,
                   trigger_given, wait_filename, now, start_time, w_ret_code,
                   w_ret_msg, sleeps, finds, poll_finds, last_poll>>
    /\ UNCHANGED wait_rest

WaitStep == WaitEnter \/ WaitFirstFind \/ WaitLoop \/ WaitSleep

NextWait == WaitEnter \/ WaitFirstFind \/ WaitLoop \/ WaitSleep \/ FileArrives

SpecWait == InitWait /\ [][NextWait]_vars

\* the clock advances and each sleep ends: the single thread keeps running
FairSpecWait == SpecWait /\ WF_vars(WaitStep)

(***************************************************************************)
(* StagingUploader: valid_put_options, sf_put, put_execute                 *)
(***************************************************************************)
valid_keywords == <<"PARALLEL", "OVERWRITE", "AUTO_COMPRESS", "SOURCE_COMPRESSION">>

valid_arguments(keyword) ==
    CASE keyword = "PARALLEL" -> {"@@"}
      [] keyword = "OVERWRITE" -> {"TRUE", "FALSE"}
      [] keyword = "AUTO_COMPRESS" -> {"TRUE", "FALSE"}
      [] keyword = "SOURCE_COMPRESSION" ->
            {"AUTO_DETECT", "GZIP", "BZ2", "BROTLI", "ZSTD", "DEFLATE",
             "RAW_DEFLATE", "NONE"}

\* keyword in valid_keywords
is_valid_keyword(kw) ==
    Len(kw) = 1 /\ \E i \in 1 .. Len(valid_keywords) : valid_keywords[i] = kw[1]

\* argument in valid_arguments[keyword]
is_valid_argument(kw, arg) == Len(arg) = 1 /\ arg[1] \in valid_arguments(kw[1])

\* lines 279, 286, 292, 297: the message of a rejected option
not_valid_message(kw) ==
    kw \o <<" is not a valid keyword. Valid keywords are: ">>
       \o Join([i \in 1 .. Len(valid_keywords) |-> <<valid_keywords[i]>>], <<", ">>)

\* what a call of valid_put_options comes to: a returned pair, or an exception
Returned(ok, value) == [raised |-> FALSE, ok |-> ok, value |-> value]

Raised(exception) == [raised |-> TRUE, ok |-> FALSE, value |-> <<exception>>]

\* line 300: keyword_count[k] = keyword_count.get(k, 0) + 1, the dict kept in
\* insertion order as a sequence of [k, n]
count_keyword(keyword_count, k) ==
    IF \E i \in 1 .. Len(keyword_count) : keyword_count[i].k = k
    THEN [i \in 1 .. Len(keyword_count) |->
            IF keyword_count[i].k = k
            THEN [k |-> k, n |-> keyword_count[i].n + 1]
            ELSE keyword_count[i]]
    ELSE Append(keyword_count, [k |-> k, n |-> 1])

\* line 303: OVERWRITE repeats are refused too
may_not_repeat_Strict(keyword) == TRUE

\* line 303: the keyword that may repeat is OVERWRITE
may_not_repeat(keyword) == keyword # "OVERWRITE"

\* lines 302-304: the first keyword, in insertion order, that repeats and may not
first_repeated(keyword_count) ==
    LET bad == {i \in 1 .. Len(keyword_count) :
                    keyword_count[i].n > 1 /\ may_not_repeat(keyword_count[i].k)}
    IN  IF bad = {} THEN <<>>
        ELSE <<keyword_count[CHOOSE i \in bad : \A j \in bad : i <= j].k>>

\* lines 273-309: the loop over the options from option i on, then the repeat
\* test and the returned run_options, which is made from the loop variable
\* option: the last option of the list
RECURSIVE check_options(_, _, _)
check_options(options, i, keyword_count) ==
    IF i > Len(options)
    THEN IF first_repeated(keyword_count) # <<>>
         THEN Returned(FALSE, first_repeated(keyword_count))
         ELSE Returned(TRUE, Replace(options[Len(options)], ",", <<>>))
    ELSE LET parts == Split(Strip(options[i]), "=")
         IN  IF Len(parts) # 2 THEN Raised("ValueError")
             ELSE LET keyword == Strip(parts[1])
                      argument == Strip(parts[2])
                  IN  IF ~is_valid_keyword(keyword)
                      THEN Returned(FALSE, not_valid_message(keyword))
                      ELSE IF keyword = <<"PARALLEL">>
                      THEN IF ~IsDigit(argument)
                           THEN Returned(FALSE, not_valid_message(keyword))
                           ELSE check_options(options, i + 1,
                                              count_keyword(keyword_count, keyword[1]))
                      ELSE IF keyword = <<"OVERWRITE">>
                      THEN IF ~is_valid_argument(keyword, argument)
                           THEN Returned(FALSE, not_valid_message(keyword))
                           ELSE check_options(options, i + 1,
                                              count_keyword(keyword_count, keyword[1]))
                      ELSE IF ~is_valid_argument(keyword, argument)
                      THEN Returned(FALSE, not_valid_message(keyword))
                      ELSE check_options(options, i + 1,
                                         count_keyword(keyword_count, keyword[1]))

\* lines 263-269: None has no upper(), and the default takes its place
split_options(options_string) ==
    IF options_string.none
    THEN << <<"OVERWRITE", "=", "FALSE">> >>
    ELSE Split(Upper(options_string.s), ",")

valid_put_options(options_string) ==
    check_options(split_options(options_string), 1, <<>>)


(***************************************************************************)
(* RepoExec.ExitHandler and RepoExec.AuditLog                              *)
(***************************************************************************)
\* Python values that are compared across types
PyStr(s) == [t |-> "str", v |-> s]

PyInt(i) == [t |-> "int", v |-> i]

\* ==: values of different types are not equal
PyEq(a, b) == a.t = b.t /\ a.v = b.v

\* an environment variable: unset, or set to a value
Unset == [set |-> FALSE, v |-> ""]

EnvSet(v) == [set |-> TRUE, v |-> v]

JobKeys == {Unset, EnvSet("0"), EnvSet("1041")}

JobNames == {Unset, EnvSet("Develop"), EnvSet("NightlyLoad")}

\* the interactive branch is taken only when both variables are absent
exit_code_AbsentOnly(job_key, job_name, result_code) ==
    IF ~job_key.set /\ ~job_name.set THEN PyInt(0)
    ELSE IF PyEq(result_code, PyInt(1)) THEN PyInt(0)
    ELSE result_code

\* ExitHandler: the value handed to sys.exit
exit_code(job_key, job_name, result_code) ==
    LET wsl_job_key == IF job_key.set THEN job_key.v ELSE "0"
        wsl_job_name == IF job_name.set THEN job_name.v ELSE "Develop"
    IN  IF wsl_job_key = "0" /\ wsl_job_name = "Develop" THEN PyInt(0)
        ELSE IF PyEq(result_code, PyInt(1)) THEN PyInt(0)
        ELSE result_code

\* sys.exit(arg): an integer is the status; any other object is printed to
\* stderr and the status is 1
sys_exit(arg) == IF arg.t = "int" THEN arg.v ELSE 1

ExitHandler(job_key, job_name, result_code) ==
    sys_exit(exit_code(job_key, job_name, result_code))

\* one audit event: its severity and the length of its db_message
AuditEvent(status_code, db_len) == [status |-> status_code, len |-> db_len]

\* the codes as the stages produce and pass them: strings
StageCodes == {PyStr("1"), PyStr("-1"), PyStr("-2"), PyStr("-3")}

\* the same codes as integers
IntCodes == {PyInt(1), PyInt(-1), PyInt(-2), PyInt(-3)}

\* str(i) of a code
IntText(i) ==
    CASE i = 1 -> "1"
      [] i = 0 -> "0"
      [] i = -1 -> "-1"
      [] i = -2 -> "-2"
      [] i = -3 -> "-3"

\* what print(x) writes
printed_text(x) == IF x.t = "str" THEN x.v ELSE IntText(x.v)

InitExit ==
    /\ OthersParked
    /\ WaitParked
    /\ PutParked
    /\ CompressParked
    /\ ExtractParked
    /\ CopyParked
    /\ x_pc = "call"
    /\ x_job_key \in JobKeys
    /\ x_job_name \in JobNames
    /\ \/ x_result_code \in StageCodes
       \/ x_result_code \in IntCodes
    /\ x_printed = <<>>
    /\ x_exit_arg = <<>>
    /\ x_status = 0

\* lines 421-448: exit_code is chosen, the code and the message are printed
ExitDecide ==
    /\ x_pc = "call"
    /\ x_exit_arg' = <<exit_code(x_job_key, x_job_name, x_result_code)>>
    /\ x_printed' = <<printed_text(x_result_code), "result_message">>
    /\ x_pc' = "exit"
    /\ UNCHANGED <<x_job_key, x_job_name, x_result_code, x_status>>
    /\ UNCHANGED exit_rest

\* line 450: sys.exit(exit_code); an argument that is not an integer is
\* printed to stderr
ExitSysExit ==
    /\ x_pc = "exit"
    /\ x_status' = sys_exit(x_exit_arg[1])
    /\ x_printed' = IF x_exit_arg[1].t = "int" THEN x_printed
                    ELSE Append(x_printed, printed_text(x_exit_arg[1]))
    /\ x_pc' = "exited"
    /\ UNCHANGED <<x_job_key, x_job_name, x_result_code, x_exit_arg>>
    /\ UNCHANGED exit_rest

NextExit == ExitDecide \/ ExitSysExit

SpecExit == InitExit /\ [][NextExit]_vars

(***************************************************************************)
(* sf_put                                                                  *)
(***************************************************************************)
\* [:1023]
MsgLimit == 1023

\* the spellings of one option
OptionTexts ==
    { <<"PARALLEL", "=", "4">>, <<"PARALLEL", "=", "0">>,
      <<" ", "parallel", " ", "=", " ", "1", "0">>, <<"PARALLEL", "=", "-", "1">>,
      <<"OVERWRITE", "=", "TRUE">>, <<"overwrite", "=", "false">>,
      <<"OVERWRITE", "=", "GZIP">>, <<"SOURCE_COMPRESSION", "=", "GZIP">>,
      <<"AUTO_COMPRESS", "=", "TRUE", " ">>, <<"FOO", "=", "1">>,
      <<>>, <<"JUNK">>, <<"OVERWRITE", "=", "TRUE", "=", "TRUE">> }

OptionLists == UNION {[1 .. n -> OptionTexts] : n \in 1 .. MaxOptions}

NoneText == [none |-> TRUE, s |-> <<>>]

Text(s) == [none |-> FALSE, s |-> s]

\* the put_options argument: None, or options joined by commas
PutOptionInputs == {NoneText} \cup {Text(Join(l, <<",">>)) : l \in OptionLists}

PutModes == {"TABLE", "FOLDER", "STAGE"}

LoadFileExtensions == {"parquet", "csv"}

\* the arguments that the claims do not vary
PutSourcePath == <<"C:", "\\", "out", "\\", " ">>

PutFilePattern == <<"orders_", "*", ".csv">>

PutStageFolder == <<"LANDING">>

PutLoadTable == <<"ORDERS">>

\* datetime.now().strftime("%Y-%m-%d %H:%M:%S")
CurrentDatetime == <<"2022", "-", "09", "-", "17", " ", "10", ":", "30", ":", "00">>

\* lines 694-696
formatted_datetime ==
    Replace(Replace(Replace(CurrentDatetime, " ", <<"_">>), ":", <<" ">>), "-", <<" ">>)

\* lines 702-705
stage_of(mode) ==
    IF mode = "TABLE" THEN <<"@%">> \o PutLoadTable
    ELSE IF mode = "FOLDER"
    THEN <<"@">> \o PutStageFolder \o <<"/">> \o PutLoadTable \o <<"/">> \o formatted_datetime
    ELSE <<>>

\* os.path.splitext(p)[1]: the extension is the last symbol when it starts with a dot
Extension(p) ==
    IF p # <<>> /\ p[Len(p)] \in {".csv", ".parquet", ".dat"} THEN p[Len(p)] ELSE ""

\* lines 707-715
new_file_pattern(ext) ==
    IF UpperSym(ext) = "PARQUET"
    THEN Replace(PutFilePattern, Extension(PutFilePattern), <<".", ext>>)
    ELSE PutFilePattern

\* lines 717-723
put_sql_of(ext, stage, options) ==
    <<"PUT 'file://">> \o fix_path(PutSourcePath) \o new_file_pattern(ext)
        \o <<"' '">> \o stage \o <<"' ">> \o options \o <<";">>

InitPut ==
    /\ OthersParked
    /\ WaitParked
    /\ ExitParked
    /\ CompressParked
    /\ ExtractParked
    /\ CopyParked
    /\ p_pc = "call"
    /\ put_options_in \in PutOptionInputs
    /\ pass_put = FALSE
    /\ put_options = <<>>
    /\ put_mode = ""
    /\ sf_stage = <<>>
    /\ put_sql = <<>>
    /\ executed = <<>>
    /\ put_rows = 0
    /\ audit = <<>>
    /\ err = [kind |-> "none", len |-> 0]
    /\ exit_call = <<>>
    /\ exit_status = 0
    /\ p_result = <<>>

ErrLens == {1, MsgLimit, MsgLimit + MaxExcess}

\* lines 691-692: valid_put_options; an exception it raises is caught by
\* sf_put's except Exception
PutValidate ==
    /\ p_pc = "call"
    /\ LET r == valid_put_options(put_options_in)
       IN  IF r.raised
           THEN /\ err' = [kind |-> "unexpected", len |-> 1]
                /\ p_pc' = "handler"
                /\ UNCHANGED <<pass_put, put_options>>
           ELSE /\ pass_put' = r.ok
                /\ put_options' = r.value
                /\ p_pc' = "build"
                /\ UNCHANGED err
    /\ UNCHANGED <<put_options_in, put_mode, sf_stage, put_sql, executed,
                   put_rows, audit, exit_call, exit_status, p_result>>
    /\ UNCHANGED put_rest

\* lines 693-723: the namespace and the PUT statement
PutBuild ==
    /\ p_pc = "build"
    /\ \E mode \in PutModes, ext \in LoadFileExtensions :
          /\ put_mode' = mode
          /\ sf_stage' = stage_of(mode)
          /\ put_sql' = put_sql_of(ext, stage_of(mode), put_options)
    /\ p_pc' = "execute"
    /\ UNCHANGED <<put_options_in, pass_put, put_options, executed, put_rows,
                   audit, err, exit_call, exit_status, p_result>>
    /\ UNCHANGED put_rest

\* line 724 and put_execute, lines 1080-1082: crsr.execute(sql) returns the
\* result rows or raises
PutExecute ==
    /\ p_pc = "execute"
    /\ executed' = Append(executed, put_sql)
    /\ \/ /\ \E n \in 0 .. MaxPutRows : put_rows' = n
          /\ p_pc' = "message"
          /\ UNCHANGED err
       \/ /\ \E kind \in {"driver", "unexpected"}, n \in ErrLens :
                err' = [kind |-> kind, len |-> n]
          /\ p_pc' = "handler"
          /\ UNCHANGED put_rows
    /\ UNCHANGED <<put_options_in, pass_put, put_options, put_mode, sf_stage,
                   put_sql, audit, exit_call, exit_status, p_result>>
    /\ UNCHANGED put_rest

\* crt_put_message, lines 1134-1170, and line 1086: one event per row and the
\* summary event; the sink's answer is indexed, which raises when the sink
\* returned nothing
PutMessage ==
    /\ p_pc = "message"
    /\ audit' = audit \o [i \in 1 .. put_rows |-> AuditEvent("I", 1)]
                      \o <<AuditEvent("I", 1)>>
    /\ \/ /\ p_pc' = "return"
          /\ UNCHANGED err
       \/ /\ err' = [kind |-> "unexpected", len |-> 1]
          /\ p_pc' = "handler"
    /\ UNCHANGED <<put_options_in, pass_put, put_options, put_mode, sf_stage,
                   put_sql, executed, put_rows, exit_call, exit_status, p_result>>
    /\ UNCHANGED put_rest

\* the except clauses, lines 1087-1119 and 725-757: one audit event with
\* the text cut to 1023 characters, then ExitHandler("-2", ...)
PutHandler ==
    /\ p_pc = "handler"
    /\ audit' = Append(audit, AuditEvent("E", Truncate(err.len, MsgLimit)))
    /\ exit_call' = <<PyStr("-2")>>
    /\ \E job_key \in JobKeys, job_name \in JobNames :
          exit_status' = ExitHandler(job_key, job_name, PyStr("-2"))
    /\ p_pc' = "exited"
    /\ UNCHANGED <<put_options_in, pass_put, put_options, put_mode, sf_stage,
                   put_sql, executed, put_rows, err, p_result>>
    /\ UNCHANGED put_rest

\* line 759
PutReturn ==
    /\ p_pc = "return"
    /\ p_result' = <<TRUE, sf_stage>>
    /\ p_pc' = "returned"
    /\ UNCHANGED <<put_options_in, pass_put, put_options, put_mode, sf_stage,
                   put_sql, executed, put_rows, audit, err, exit_call,
                   exit_status>>
    /\ UNCHANGED put_rest

NextPut ==
    PutValidate \/ PutBuild \/ PutExecute \/ PutMessage \/ PutHandler \/ PutReturn

SpecPut == InitPut /\ [][NextPut]_vars


(***************************************************************************)
(* Compressor: compress_files_in_folder, compress_files_concurrently       *)
(***************************************************************************)
DecimalDigits == <<"0", "1", "2", "3", "4", "5", "6", "7", "8", "9">>

DigitValue(c) == (CHOOSE i \in 1 .. 10 : DecimalDigits[i] = c) - 1

IsDecimal(s) ==
    s # <<>> /\ \A i \in 1 .. Len(s) : \E d \in 1 .. 10 : DecimalDigits[d] = s[i]

RECURSIVE DecimalValue(_)
DecimalValue(s) ==
    IF s = <<>> THEN 0
    ELSE 10 * DecimalValue(SubSeq(s, 1, Len(s) - 1)) + DigitValue(s[Len(s)])

\* int(text): blanks around the number are ignored, a sign may lead the
\* digits, anything else raises ValueError
py_int(s) ==
    LET t == Strip(s)
    IN  IF IsDecimal(t) THEN [raised |-> FALSE, v |-> DecimalValue(t)]
        ELSE IF t # <<>> /\ Head(t) = "-" /\ IsDecimal(Tail(t))
        THEN [raised |-> FALSE, v |-> 0 - DecimalValue(Tail(t))]
        ELSE IF t # <<>> /\ Head(t) = "+" /\ IsDecimal(Tail(t))
        THEN [raised |-> FALSE, v |-> DecimalValue(Tail(t))]
        ELSE [raised |-> TRUE, v |-> 0]

\* lines 637-640
files_per_batch_int(text) ==
    IF Len(text) = 0 THEN [raised |-> FALSE, v |-> 1] ELSE py_int(text)

\* a range that includes its stop
RECURSIVE range_from_Inclusive(_, _, _)
range_from_Inclusive(i, stop, step) ==
    IF i <= stop THEN <<i>> \o range_from_Inclusive(i + step, stop, step) ELSE <<>>

\* range(i, stop, step) for a positive step
RECURSIVE range_from(_, _, _)
range_from(i, stop, step) ==
    IF i < stop THEN <<i>> \o range_from(i + step, stop, step) ELSE <<>>

\* range(0, stop, step): a zero step raises ValueError, a negative step
\* gives the empty range here
py_range(stop, step) ==
    IF step = 0 THEN [raised |-> TRUE, v |-> <<>>]
    ELSE IF step < 0 THEN [raised |-> FALSE, v |-> <<>>]
    ELSE [raised |-> FALSE, v |-> range_from(0, stop, step)]

\* list[i:j] with 0 <= i <= j
Slice(list, i, j) == SubSeq(list, i + 1, IF j < Len(list) THEN j ELSE Len(list))

\* lines 642-645
make_batches(list, starts, size) ==
    [b \in 1 .. Len(starts) |-> Slice(list, starts[b], starts[b] + size)]

BatchSizeTexts ==
    {<<>>, <<"-", "1">>, <<" ", "2">>, <<"x">>, <<"1", "0">>}
        \cup {<<DecimalDigits[k + 1]>> : k \in 0 .. MaxBatchSize}

Fates == {"ok", "raise", "crash"}

InitCompress ==
    /\ OthersParked
    /\ WaitParked
    /\ PutParked
    /\ ExitParked
    /\ ExtractParked
    /\ CopyParked
    /\ c_pc = "call"
    /\ files_per_batch \in BatchSizeTexts
    /\ \E n \in 0 .. MaxFiles :
          /\ file_list = [i \in 1 .. n |-> i]
          /\ c_fate \in [1 .. n -> Fates]
          /\ c_state = [i \in 1 .. n |-> "none"]
    /\ Cardinality({i \in 1 .. Len(c_fate) : c_fate[i] # "ok"}) <= MaxFailures
    /\ batches = <<>>
    /\ c_batch = 0
    /\ c_next = 0
    /\ c_broken = FALSE
    /\ c_exc = ""

\* lines 629-645: the file list, the batch size and the batches
CompressList ==
    /\ c_pc = "call"
    /\ LET size == files_per_batch_int(files_per_batch)
           starts == py_range(Len(file_list), size.v)
       IN  IF size.raised \/ starts.raised
           THEN /\ c_exc' = "ValueError"
                /\ c_pc' = "raised"
                /\ UNCHANGED <<batches, c_batch>>
           ELSE /\ batches' = make_batches(file_list, starts.v, size.v)
                /\ c_batch' = 1
                /\ c_pc' = "pool"
                /\ UNCHANGED c_exc
    /\ UNCHANGED <<files_per_batch, file_list, c_fate, c_next, c_state, c_broken>>
    /\ UNCHANGED compress_rest

\* line 647 and lines 597-598: the next batch gets an executor of its own;
\* after the last batch the call returns
CompressOpenPool ==
    /\ c_pc = "pool"
    /\ IF c_batch > Len(batches)
       THEN c_pc' = "returned" /\ UNCHANGED <<c_next, c_broken>>
       ELSE c_pc' = "submit" /\ c_next' = 1 /\ c_broken' = FALSE
    /\ UNCHANGED <<files_per_batch, file_list, c_fate, batches, c_batch, c_state,
                   c_exc>>
    /\ UNCHANGED compress_rest

\* lines 599-608: executor.submit of the next file of the batch; the future
\* is not kept; submit on a broken executor raises BrokenProcessPool
CompressSubmit ==
    /\ c_pc = "submit"
    /\ IF c_next > Len(batches[c_batch])
       THEN c_pc' = "join" /\ UNCHANGED <<c_next, c_state, c_exc>>
       ELSE IF c_broken
       THEN c_pc' = "raised" /\ c_exc' = "BrokenProcessPool"
            /\ UNCHANGED <<c_next, c_state>>
       ELSE /\ c_state' = [c_state EXCEPT ![batches[c_batch][c_next]] = "queued"]
            /\ c_next' = c_next + 1
            /\ UNCHANGED <<c_pc, c_exc>>
    /\ UNCHANGED <<files_per_batch, file_list, c_fate, batches, c_batch, c_broken>>
    /\ UNCHANGED compress_rest

\* a worker process takes a work item and calls compress_file
WorkerStart ==
    /\ \E f \in 1 .. Len(c_state) :
          /\ c_state[f] = "queued"
          /\ c_state' = [c_state EXCEPT ![f] = "running"]
    /\ UNCHANGED <<c_pc, files_per_batch, file_list, c_fate, batches, c_batch,
                   c_next, c_broken, c_exc>>
    /\ UNCHANGED compress_rest

\* compress_file, lines 551-578, ends: the output is written, or an
\* exception is stored in the future nobody reads, or the process dies
WorkerEnd ==
    /\ \E f \in 1 .. Len(c_state) :
          /\ c_state[f] = "running"
          /\ c_state' = [c_state EXCEPT ![f] =
                            CASE c_fate[f] = "ok" -> "done"
                              [] c_fate[f] = "raise" -> "failed"
                              [] c_fate[f] = "crash" -> "crashed"]
    /\ UNCHANGED <<c_pc, files_per_batch, file_list, c_fate, batches, c_batch,
                   c_next, c_broken, c_exc>>
    /\ UNCHANGED compress_rest

\* ProcessPoolExecutor: the executor notices the dead worker, marks itself
\* broken, fails every work item not finished and ends the other workers
PoolBreaks ==
    /\ c_pc \in {"submit", "join"}
    /\ ~c_broken
    /\ \E f \in 1 .. Len(c_state) : c_state[f] = "crashed" /\ f \in Range(batches[c_batch])
    /\ c_broken' = TRUE
    /\ c_state' = [f \in 1 .. Len(c_state) |->
                      IF c_state[f] \in {"queued", "running"} THEN "lost"
                      ELSE c_state[f]]
    /\ UNCHANGED <<c_pc, files_per_batch, file_list, c_fate, batches, c_batch,
                   c_next, c_exc>>
    /\ UNCHANGED compress_rest

\* a shutdown that waits for no work item
shutdown_waits_for_None(state) == {}

\* the work items shutdown(wait=True) waits for: those submitted and not
\* finished
shutdown_waits_for(state) ==
    {f \in 1 .. Len(state) : state[f] \in {"queued", "running"}}

\* line 598, the end of the with block: shutdown(wait=True) returns when no
\* work item of the batch is left unfinished
CompressJoin ==
    /\ c_pc = "join"
    /\ shutdown_waits_for(c_state) = {}
    /\ c_batch' = c_batch + 1
    /\ c_pc' = "pool"
    /\ UNCHANGED <<files_per_batch, file_list, c_fate, batches, c_next, c_state,
                   c_broken, c_exc>>
    /\ UNCHANGED compress_rest

NextCompress ==
    \/ CompressList
    \/ CompressOpenPool
    \/ CompressSubmit
    \/ WorkerStart
    \/ WorkerEnd
    \/ PoolBreaks
    \/ CompressJoin

SpecCompress == InitCompress /\ [][NextCompress]_vars


(***************************************************************************)
(* Extractors: extract_bcp, extract_odbc_dba, delete_file                  *)
(***************************************************************************)
Backends == {"bcp", "odbc"}

\* one audit event of an extractor: its severity and which message it is
ExtractEvent(status_code, message) == [status |-> status_code, msg |-> message]

\* def delete_file(filename: str): the name of the parameter
delete_file_parameter == "filename"

\* lines 1062-1063: the keyword the calls pass the file name by
delete_file_keyword == "sql_filename"

\* a call by keyword reaches the function when the function has a parameter
\* of that name, else it raises TypeError
call_binds(parameter, keyword) == parameter = keyword

InitExtract ==
    /\ OthersParked
    /\ WaitParked
    /\ PutParked
    /\ ExitParked
    /\ CompressParked
    /\ CopyParked
    /\ e_pc = "call"
    /\ e_backend \in Backends
    /\ e_dat \in {"absent", "good", "empty", "bad"}
    /\ e_sql_tmp \in BOOLEAN
    /\ e_parquet \in {"absent", "stale"}
    /\ e_proc = ""
    /\ e_converted = ""
    /\ e_ret_code = ""
    /\ e_audit = <<>>
    /\ e_deleted = {}
    /\ e_exc = ""

\* extract_bcp, lines 910-921: the command is built; extract_odbc_dba, lines
\* 1008-1017: the SQL is written to <table>.sql_tmp and the command is built
ExtractPrepare ==
    /\ e_pc = "call"
    /\ e_sql_tmp' = IF e_backend = "odbc" THEN TRUE ELSE e_sql_tmp
    /\ e_pc' = "run"
    /\ UNCHANGED <<e_backend, e_dat, e_parquet, e_proc, e_converted, e_ret_code,
                   e_audit, e_deleted, e_exc>>
    /\ UNCHANGED extract_rest

\* lines 923-940 and 1019-1037: subprocess.run(..., check=True). The process
\* ends well and has written the raw file, or it fails, having written
\* nothing or a part; only extract_odbc_dba returns from the except clause
ExtractRun ==
    /\ e_pc = "run"
    /\ \/ /\ e_proc' = "ok"
          /\ e_dat' \in {"good", "empty", "bad"}
          /\ e_audit' = Append(e_audit, ExtractEvent("I", "completed"))
          /\ e_ret_code' = "1"
          /\ e_pc' = IF e_backend = "odbc" THEN "detect" ELSE "convert"
       \/ /\ e_proc' = "failed"
          /\ e_dat' \in {e_dat, "bad"}
          /\ e_ret_code' = "-2"
          /\ e_pc' = IF e_backend = "odbc" THEN "returned" ELSE "convert"
          /\ UNCHANGED e_audit
    /\ UNCHANGED <<e_backend, e_sql_tmp, e_parquet, e_converted, e_deleted, e_exc>>
    /\ UNCHANGED extract_rest

\* lines 1039-1044: extract_odbc_dba opens the raw file to find its encoding
ExtractDetect ==
    /\ e_pc = "detect"
    /\ IF e_dat = "absent"
       THEN e_exc' = "FileNotFoundError" /\ e_pc' = "raised"
       ELSE e_pc' = "convert" /\ UNCHANGED e_exc
    /\ UNCHANGED <<e_backend, e_dat, e_sql_tmp, e_parquet, e_proc, e_converted,
                   e_ret_code, e_audit, e_deleted>>
    /\ UNCHANGED extract_rest

\* lines 942-956 and 1046-1060: the raw file is read and written as
\* parquet; reading a missing, empty or unparsable raw file raises.
\* extract_bcp returns at line 958
ExtractConvert ==
    /\ e_pc = "convert"
    /\ IF e_dat = "good"
       THEN /\ e_converted' = "ok"
            /\ e_parquet' = "new"
            /\ e_audit' = Append(e_audit, ExtractEvent("I", "Parquet file created"))
            /\ e_pc' = IF e_backend = "odbc" THEN "cleanup" ELSE "returned"
            /\ UNCHANGED e_exc
       ELSE /\ e_converted' = "failed"
            /\ e_exc' = IF e_dat = "absent" THEN "FileNotFoundError" ELSE "ArrowInvalid"
            /\ e_pc' = "raised"
            /\ UNCHANGED <<e_parquet, e_audit>>
    /\ UNCHANGED <<e_backend, e_dat, e_sql_tmp, e_proc, e_ret_code, e_deleted>>
    /\ UNCHANGED extract_rest

\* lines 1062-1065 and delete_file, lines 872-882: the two delete_file calls,
\* each removing the file when it exists, then the return
ExtractCleanup ==
    /\ e_pc = "cleanup"
    /\ IF call_binds(delete_file_parameter, delete_file_keyword)
       THEN /\ e_deleted' = {f \in {"sql_tmp", "dat"} :
                                \/ f = "sql_tmp" /\ e_sql_tmp
                                \/ f = "dat" /\ e_dat # "absent"}
            /\ e_sql_tmp' = FALSE
            /\ e_dat' = "absent"
            /\ e_pc' = "returned"
            /\ UNCHANGED e_exc
       ELSE /\ e_exc' = "TypeError"
            /\ e_pc' = "raised"
            /\ UNCHANGED <<e_deleted, e_sql_tmp, e_dat>>
    /\ UNCHANGED <<e_backend, e_parquet, e_proc, e_converted, e_ret_code, e_audit>>
    /\ UNCHANGED extract_rest

NextExtract ==
    ExtractPrepare \/ ExtractRun \/ ExtractDetect \/ ExtractConvert \/ ExtractCleanup

SpecExtract == InitExtract /\ [][NextExtract]_vars


(***************************************************************************)
(* Loader: copyinto_execute, crt_copyinto_message                          *)
(***************************************************************************)
\* a result row of ten columns, one per loaded file
LoadRow(n) == [columns |-> 10, rows_loaded |-> n]

\* the one-column row the warehouse answers with when no file was processed
StatusRow == [columns |-> 1, rows_loaded |-> 0]

ResultRows == {LoadRow(n) : n \in 0 .. MaxRowsLoaded} \cup {StatusRow}

ResultSets == UNION {[1 .. n -> ResultRows] : n \in 0 .. MaxResultRows}

\* what AuditLog returns: the rows the sink answered with, here the text of
\* the first column of the first row, or "" (no row) when the sink failed
SinkAnswers == {<<>>, << <<"1">> >>, << <<"-", "2">> >>}

\* one audit event of the loader: severity, which message it is, the rows
\* and files it states, and the length of its diagnostic text
CopyEvent(status_code, kind, rows, file_count, db_len) ==
    [status |-> status_code, kind |-> kind, rows |-> rows, files |-> file_count,
     len |-> db_len]

\* lines 831-842: the row unpacks into the ten names
unpacks(row) == row.columns = 10

InitCopy ==
    /\ OthersParked
    /\ WaitParked
    /\ PutParked
    /\ ExitParked
    /\ CompressParked
    /\ ExtractParked
    /\ l_pc = "call"
    /\ l_results \in ResultSets
    /\ l_row = 0
    /\ rows_loaded_sum = 0
    /\ files_loaded_count = 0
    /\ l_audit = <<>>
    /\ l_sink = <<>>
    /\ l_ret_code = <<>>
    /\ l_err = [kind |-> "none", len |-> 0]
    /\ l_exit_call = <<>>
    /\ l_exit_status = 0

\* lines 774-776: crsr.execute(sql) returns the result rows or raises
CopyExecute ==
    /\ l_pc = "call"
    /\ \/ /\ l_pc' = "rows"
          /\ l_row' = 1
          /\ UNCHANGED l_err
       \/ /\ \E kind \in {"programming", "driver", "unexpected"}, n \in ErrLens :
                l_err' = [kind |-> kind, len |-> n]
          /\ l_pc' = "handler"
          /\ UNCHANGED l_row
    /\ UNCHANGED <<l_results, rows_loaded_sum, files_loaded_count, l_audit, l_sink,
                   l_ret_code, l_exit_call, l_exit_status>>
    /\ UNCHANGED copy_rest

\* crt_copyinto_message, lines 829-856: one pass of the loop; a row that
\* does not unpack raises ValueError, which ends the loop and resets the
\* totals
CopyRow ==
    /\ l_pc = "rows"
    /\ IF l_row > Len(l_results)
       THEN /\ l_pc' = "summary"
            /\ UNCHANGED <<l_row, rows_loaded_sum, files_loaded_count, l_audit>>
       ELSE IF unpacks(l_results[l_row])
       THEN /\ l_audit' = Append(l_audit,
                              CopyEvent("I", "file", l_results[l_row].rows_loaded, 1, 1))
            /\ rows_loaded_sum' = rows_loaded_sum + l_results[l_row].rows_loaded
            /\ files_loaded_count' = files_loaded_count + 1
            /\ l_row' = l_row + 1
            /\ UNCHANGED l_pc
       ELSE /\ rows_loaded_sum' = 0
            /\ files_loaded_count' = 0
            /\ l_audit' = Append(l_audit, CopyEvent("I", "no rows", 0, 0, 0))
            /\ l_pc' = "summary"
            /\ UNCHANGED l_row
    /\ UNCHANGED <<l_results, l_sink, l_ret_code, l_err, l_exit_call, l_exit_status>>
    /\ UNCHANGED copy_rest

\* lines 858-869: the summary event; the sink's answer is indexed, which
\* raises IndexError when the sink returned nothing
CopySummary ==
    /\ l_pc = "summary"
    /\ l_audit' = Append(l_audit,
                      CopyEvent("I", "summary", rows_loaded_sum, files_loaded_count, 1))
    /\ \E answer \in SinkAnswers :
          /\ l_sink' = answer
          /\ IF answer = <<>>
             THEN /\ l_err' = [kind |-> "unexpected", len |-> 1]
                  /\ l_pc' = "handler"
                  /\ UNCHANGED l_ret_code
             ELSE /\ l_ret_code' = answer[1]
                  /\ l_pc' = "format"
                  /\ UNCHANGED l_err
    /\ UNCHANGED <<l_results, l_row, rows_loaded_sum, files_loaded_count,
                   l_exit_call, l_exit_status>>
    /\ UNCHANGED copy_rest

\* copyinto_execute, lines 781 and 822: str(ret_code[0][0]) of the text
\* crt_copyinto_message returned is its first character
CopyFormat ==
    /\ l_pc = "format"
    /\ l_ret_code' = <<l_ret_code[1]>>
    /\ l_pc' = "returned"
    /\ UNCHANGED <<l_results, l_row, rows_loaded_sum, files_loaded_count, l_audit,
                   l_sink, l_err, l_exit_call, l_exit_status>>
    /\ UNCHANGED copy_rest

\* the except clauses, lines 782-820: ProgrammingError is audited with
\* severity I and the whole text, the other driver errors with severity E
\* and the text cut to 1023 characters, any other exception with severity E
\* and the whole text; then ExitHandler("-2", ...)
CopyHandler ==
    /\ l_pc = "handler"
    /\ l_audit' = Append(l_audit,
                      CASE l_err.kind = "programming" ->
                              CopyEvent("I", "error", 0, 0, l_err.len)
                        [] l_err.kind = "driver" ->
                              CopyEvent("E", "error", 0, 0, Truncate(l_err.len, MsgLimit))
                        [] l_err.kind = "unexpected" ->
                              CopyEvent("E", "error", 0, 0, l_err.len))
    /\ l_exit_call' = <<PyStr("-2")>>
    /\ \E job_key \in JobKeys, job_name \in JobNames :
          l_exit_status' = ExitHandler(job_key, job_name, PyStr("-2"))
    /\ l_pc' = "exited"
    /\ UNCHANGED <<l_results, l_row, rows_loaded_sum, files_loaded_count, l_sink,
                   l_ret_code, l_err>>
    /\ UNCHANGED copy_rest

NextCopy == CopyExecute \/ CopyRow \/ CopySummary \/ CopyFormat \/ CopyHandler

SpecCopy == InitCopy /\ [][NextCopy]_vars


(***************************************************************************)
(* parse_path: a path is split into directory, filename and extension.     *)
(* A path is a sequence of characters; "/" is the separator.               *)
(***************************************************************************)

\* the longest path the model passes
MaxPathLen == 4

\* the characters of a path: separator, dot, wildcard, and a letter
PathChars == {"/", ".", "*", "f"}

\* the paths of at most n characters
PathsUpTo(n) == UNION {[1..k -> PathChars] : k \in 0..n}

\* str.rfind(c) + 1: the position of the last c in s, 0 if there is none
LastIndex(s, c) ==
    IF \E i \in 1..Len(s) : s[i] = c
    THEN CHOOSE i \in 1..Len(s) : s[i] = c /\ \A j \in (i+1)..Len(s) : s[j] # c
    ELSE 0

\* str.rstrip("/")
RECURSIVE RStripSep(_)
RStripSep(s) ==
    IF s # <<>> /\ s[Len(s)] = "/" THEN RStripSep(SubSeq(s, 1, Len(s) - 1)) ELSE s

\* os.path.split(p): head is all before the last separator, without its
\* trailing separators unless it is separators only; tail is the rest
os_path_split(p) ==
    LET i    == LastIndex(p, "/")
        head == SubSeq(p, 1, i)
    IN  [head |-> IF \E k \in 1..Len(head) : head[k] # "/"
                  THEN RStripSep(head) ELSE head,
         tail |-> SubSeq(p, i + 1, Len(p))]

\* os.path.splitext(p): the extension starts at the last dot, if that dot is
\* in the last component and some character other than a dot comes before it
\* in that component; otherwise the extension is empty
os_path_splitext(p) ==
    LET sepIndex == LastIndex(p, "/")
        dotIndex == LastIndex(p, ".")
    IN  IF /\ dotIndex > sepIndex
           /\ \E k \in (sepIndex + 1)..(dotIndex - 1) : p[k] # "."
        THEN [root |-> SubSeq(p, 1, dotIndex - 1), ext |-> SubSeq(p, dotIndex, Len(p))]
        ELSE [root |-> p, ext |-> <<>>]

\* "*" in filename
has_wildcard(filename) == \E i \in 1..Len(filename) : filename[i] = "*"

\* what parse_path(path) does: the values it returns, or the exception
parse_path(path) ==
    LET parts == os_path_split(path)
    IN  IF has_wildcard(parts.tail)
        THEN [exc |-> "", directory |-> parts.head, filename |-> parts.tail,
              file_extension |-> os_path_splitext(path).ext]
        ELSE IF os_path_splitext(parts.tail).ext = <<>>
        THEN [exc |-> "ValueError", directory |-> <<>>, filename |-> <<>>,
              file_extension |-> <<>>]
        ELSE [exc |-> "", directory |-> parts.head,
              filename |-> os_path_splitext(parts.tail).root,
              file_extension |-> os_path_splitext(parts.tail).ext]

InitParse ==
    /\ WaitParked /\ PutParked /\ ExitParked /\ CompressParked
    /\ ExtractParked /\ CopyParked /\ NamesParked
    /\ pp_pc = "call"
    /\ pp_path \in PathsUpTo(MaxPathLen)
    /\ pp_directory = <<>>
    /\ pp_filename = <<>>
    /\ pp_file_extension = <<>>
    /\ pp_exc = ""

\* parse_path(path)
ParsePath ==
    /\ pp_pc = "call"
    /\ LET r == parse_path(pp_path)
       IN  /\ pp_pc' = IF r.exc = "" THEN "returned" ELSE "raised"
           /\ pp_exc' = r.exc
           /\ pp_directory' = r.directory
           /\ pp_filename' = r.filename
           /\ pp_file_extension' = r.file_extension
    /\ UNCHANGED pp_path
    /\ UNCHANGED parse_rest

NextParse == ParsePath

SpecParse == InitParse /\ [][NextParse]_vars

(***************************************************************************)
(* The paths of one batch of the compressor: compress_files_in_folder      *)
(* lists the files that match file_pattern and compress_file derives the   *)
(* path each worker writes. A file name is a sequence of parts, "." among  *)
(* them; all matched files are taken to be in one batch.                   *)
(***************************************************************************)

\* the folder that holds the files
SourcePath == <<"/", "in">>

\* the file names a folder can hold
FileNames ==
    { <<"a", ".", "csv">>, <<"a", ".", "txt">>, <<"b", ".", "csv">>,
      <<"a", ".", "csv", ".", "gz">>, <<"a", ".", "parquet">> }

\* the values of file_pattern
FilePatterns == { <<"*">>, <<"*", ".", "csv">>, <<"a", ".", "*">> }

\* the values of compress_method
CompressMethods == {"gzip", "GZIP", "parquet", "zip"}

\* str.lower()
lower(text) == IF text = "GZIP" THEN "gzip" ELSE text

\* fnmatch.fnmatch(name, pattern): "*" stands for any run of parts
RECURSIVE fnmatch(_, _)
fnmatch(name, pattern) ==
    IF pattern = <<>> THEN name = <<>>
    ELSE IF Head(pattern) = "*"
    THEN \/ fnmatch(name, Tail(pattern))
         \/ name # <<>> /\ fnmatch(Tail(name), pattern)
    ELSE /\ name # <<>>
         /\ Head(name) = Head(pattern)
         /\ fnmatch(Tail(name), Tail(pattern))

\* os.path.join(a, b): b alone when it is absolute
os_path_join(a, b) ==
    IF b # <<>> /\ Head(b) = "/" THEN b
    ELSE IF a = <<>> \/ a[Len(a)] = "/" THEN a \o b
    ELSE a \o <<"/">> \o b

\* lines 631-635: the matched files, each joined to the folder
matched_files(listing, pattern) ==
    {os_path_join(SourcePath, file) : file \in {n \in listing : fnmatch(n, pattern)}}

\* compress_file, lines 551-575: the path the worker of filename writes,
\* <<>> when the method is neither gzip nor parquet
output_path(filename, method) ==
    LET full_file_path == os_path_join(SourcePath, filename)
    IN  IF lower(method) = "gzip" THEN full_file_path \o <<".", "gz">>
        ELSE IF lower(method) = "parquet"
        THEN os_path_join(SourcePath,
                          os_path_splitext(filename).root \o <<".", "parquet">>)
        ELSE <<>>

InitNames ==
    /\ WaitParked /\ PutParked /\ ExitParked /\ CompressParked
    /\ ExtractParked /\ CopyParked /\ ParseParked
    /\ o_pc = "call"
    /\ o_method \in CompressMethods
    /\ o_pattern \in FilePatterns
    /\ o_listing \in SUBSET FileNames
    /\ o_batch = {}
    /\ o_output = <<>>

\* compress_files_in_folder, lines 629-635: the file list
NamesList ==
    /\ o_pc = "call"
    /\ o_batch' = matched_files(o_listing, o_pattern)
    /\ o_pc' = "listed"
    /\ UNCHANGED <<o_method, o_pattern, o_listing, o_output>>
    /\ UNCHANGED names_rest

\* compress_files_concurrently, lines 597-608, and compress_file: every file
\* of the batch gets a worker, which writes its output path
NamesOutputs ==
    /\ o_pc = "listed"
    /\ o_output' = [f \in o_batch |-> output_path(f, o_method)]
    /\ o_pc' = "named"
    /\ UNCHANGED <<o_method, o_pattern, o_listing, o_batch>>
    /\ UNCHANGED names_rest

NextNames == NamesList \/ NamesOutputs

SpecNames == InitNames /\ [][NextNames]_vars

(***************************************************************************)
(* Properties of valid_put_options and sf_put.                             *)
(***************************************************************************)
\* sub occurs in text
Contains(text, sub) ==
    \E i \in 0 .. Len(text) - Len(sub) : SubSeq(text, i + 1, i + Len(sub)) = sub

\* the options the caller supplied: the comma-separated pieces, upper-cased
SuppliedOptions ==
    IF put_options_in.none THEN <<>> ELSE Split(Upper(put_options_in.s), ",")

\* an option of the shape KEYWORD=VALUE
WellFormed(option) == Len(Split(Strip(option), "=")) = 2

KeywordOf(option) == Strip(Split(Strip(option), "=")[1])

ValueOf(option) == Strip(Split(Strip(option), "=")[2])

KeywordSet == {"PARALLEL", "OVERWRITE", "AUTO_COMPRESS", "SOURCE_COMPRESSION"}

\* a positive integer literal: digits, not all of them zero
PositiveLiteral(v) == IsDigit(v) /\ \E i \in 1 .. Len(v) : v[i] # "0"

\* the value is one the keyword permits
Permitted(keyword, v) ==
    CASE keyword = <<"PARALLEL">> -> PositiveLiteral(v)
      [] keyword \in {<<"OVERWRITE">>, <<"AUTO_COMPRESS">>} ->
            v \in {<<"TRUE">>, <<"FALSE">>}
      [] keyword = <<"SOURCE_COMPRESSION">> ->
            v \in {<<"AUTO_DETECT">>, <<"GZIP">>, <<"BZ2">>, <<"BROTLI">>, <<"ZSTD">>,
                   <<"DEFLATE">>, <<"RAW_DEFLATE">>, <<"NONE">>}
      [] OTHER -> FALSE

ValidOption(option) ==
    /\ WellFormed(option)
    /\ \E k \in KeywordSet : KeywordOf(option) = <<k>>
    /\ Permitted(KeywordOf(option), ValueOf(option))

\* two supplied options have the same keyword, which is not OVERWRITE
RepeatsOtherThanOverwrite ==
    \E i, j \in 1 .. Len(SuppliedOptions) :
        /\ i < j
        /\ WellFormed(SuppliedOptions[i]) /\ WellFormed(SuppliedOptions[j])
        /\ KeywordOf(SuppliedOptions[i]) = KeywordOf(SuppliedOptions[j])
        /\ KeywordOf(SuppliedOptions[i]) # <<"OVERWRITE">>

\* valid_put_options has just been called, and: it returned accepted, it
\* returned rejected (with a message), it raised
Validated == p_pc = "build" \/ (p_pc = "handler" /\ executed = <<>>)

Accepted == Validated /\ pass_put

Rejected == Validated /\ ~pass_put /\ put_options # <<>>

RaisedError == Validated /\ ~pass_put /\ put_options = <<>>

\* sf_put is past a call of valid_put_options that returned rejected
WasRejected == p_pc \notin {"idle", "call"} /\ ~pass_put /\ put_options # <<>>

\* C6: for every option string it accepts, valid_put_options returns an
\* option string that retains every supplied KEYWORD=VALUE option, and the
\* PUT statement sf_put builds carries them all.
C6_AllOptionsRetained ==
    /\ Accepted =>
          \A i \in 1 .. Len(SuppliedOptions) :
              Contains(put_options, Strip(SuppliedOptions[i]))
    /\ (p_pc = "execute" /\ pass_put) =>
          \A i \in 1 .. Len(SuppliedOptions) :
              Contains(put_sql, Strip(SuppliedOptions[i]))

\* C7: whenever valid_put_options rejects the option string, sf_put executes
\* no PUT statement and does not return a result with a namespace.
C7_RejectedNeverExecuted ==
    WasRejected => (executed = <<>> /\ p_pc # "returned" /\ p_result = <<>>)

\* C8: an option string is accepted only if every keyword is one of the four
\* valid keywords and every value is one its keyword permits (PARALLEL: a
\* positive integer literal); a string whose first option has an unknown
\* keyword is rejected with a message naming it and listing the valid ones.
C8_AcceptsOnlyValid ==
    /\ Accepted =>
          \A i \in 1 .. Len(SuppliedOptions) : ValidOption(SuppliedOptions[i])
    /\ (/\ Validated
        /\ SuppliedOptions # <<>>
        /\ WellFormed(SuppliedOptions[1])
        /\ \A k \in KeywordSet : KeywordOf(SuppliedOptions[1]) # <<k>>) =>
          (/\ Rejected
           /\ Contains(put_options, KeywordOf(SuppliedOptions[1]))
           /\ \A k \in KeywordSet : Contains(put_options, <<k>>))

\* C9: an option string in which a keyword other than OVERWRITE occurs more
\* than once is never accepted, and is rejected when all its options have the
\* shape KEYWORD=VALUE; a string of valid options in which no keyword other
\* than OVERWRITE repeats is accepted, OVERWRITE repeated or not.
C9_RepeatRule ==
    /\ (Validated /\ RepeatsOtherThanOverwrite) =>
          /\ ~Accepted
          /\ (\A i \in 1 .. Len(SuppliedOptions) : WellFormed(SuppliedOptions[i]))
                => Rejected
    /\ (/\ Validated
        /\ SuppliedOptions # <<>>
        /\ \A i \in 1 .. Len(SuppliedOptions) : ValidOption(SuppliedOptions[i])
        /\ ~RepeatsOtherThanOverwrite) =>
          Accepted

C9_Witness ==
    /\ p_pc = "build"
    /\ RepeatsOtherThanOverwrite
    /\ \A i \in 1 .. Len(SuppliedOptions) : ValidOption(SuppliedOptions[i])
    /\ Rejected
    /\ put_options = <<"PARALLEL">>

\* C10: when no options are supplied (None, or an empty string),
\* valid_put_options does not fail and accepts with the default
\* OVERWRITE=FALSE.
C10_DefaultWhenAbsent ==
    (Validated /\ (put_options_in.none \/ put_options_in.s = <<>>)) =>
        (Accepted /\ put_options = <<"OVERWRITE", "=", "FALSE">>)

\* the characters that a namespace-safe timestamp does not contain
UnsafeInNamespace == {" ", ":", "-"}

\* sf_put has computed the destination namespace
NamespaceBuilt == p_pc \in {"execute", "message", "handler", "return", "returned", "exited"}
                      /\ put_mode # ""

FolderPrefix == <<"@">> \o PutStageFolder \o <<"/">> \o PutLoadTable \o <<"/">>

\* C11: the destination namespace follows the mode: TABLE gives exactly
\* @%<table>; FOLDER gives @<stage>/<table>/<timestamp>, the timestamp being
\* the one taken in the call with every space, colon and dash replaced by a
\* character that is none of the three, so that the namespace holds no
\* space, colon or dash coming from the timestamp.
C11_Namespace ==
    NamespaceBuilt =>
        /\ put_mode = "TABLE" => sf_stage = <<"@%">> \o PutLoadTable
        /\ put_mode = "FOLDER" =>
              LET ts == SubSeq(sf_stage, Len(FolderPrefix) + 1, Len(sf_stage))
              IN  /\ SubSeq(sf_stage, 1, Len(FolderPrefix)) = FolderPrefix
                  /\ Len(ts) = Len(CurrentDatetime)
                  /\ \A i \in 1 .. Len(ts) :
                        /\ ts[i] \notin UnsafeInNamespace
                        /\ CurrentDatetime[i] \notin UnsafeInNamespace
                              => ts[i] = CurrentDatetime[i]

\* the transfer (crsr.execute of the PUT statement) raised: the statement was
\* handed over and no result was reported
TransferRaised ==
    /\ p_pc \in {"handler", "exited"}
    /\ executed # <<>>
    /\ \A i \in 1 .. Len(audit) : audit[i].status # "I"

C12_OneErrorEvent ==
    /\ (TransferRaised /\ p_pc = "handler") => (audit = <<>> /\ exit_call = <<>>)
    /\ (TransferRaised /\ p_pc = "exited") =>
          /\ Len(audit) = 1
          /\ audit[1].status = "E"
          /\ audit[1].len <= MsgLimit
          /\ audit[1].len = err.len \/ err.len > MsgLimit
          /\ exit_call = <<PyStr("-2")>>
          /\ executed = <<put_sql>>
          /\ p_result = <<>>

\* C12: when the transfer raises an exception, of the driver or unexpected,
\* exactly one audit event is emitted, of severity E and with a diagnostic
\* text of at most 1023 characters; then the process is ended through
\* ExitHandler called with the Error code -2, and afterwards no audit event
\* and no warehouse command is issued.
C12_TransferFailure ==
    /\ []C12_OneErrorEvent
    /\ [][p_pc = "exited" => (p_pc' = "exited" /\ UNCHANGED <<audit, executed>>)]_vars
    /\ [][(p_pc = "handler" /\ p_pc' # "handler") => p_pc' = "exited"]_vars

C12_Witness ==
    /\ p_pc = "exited" /\ TransferRaised
    /\ err.kind = "unexpected" /\ err.len > MsgLimit
    /\ audit = <<AuditEvent("E", MsgLimit)>>


(***************************************************************************)
(* Properties of RepoExec.ExitHandler.                                     *)
(***************************************************************************)
\* the job key and the job name ExitHandler works with
EffectiveJobKey == IF x_job_key.set THEN x_job_key.v ELSE "0"

EffectiveJobName == IF x_job_name.set THEN x_job_name.v ELSE "Develop"

\* a job runs the script: the scheduler has set a job key and a job name
InJobContext ==
    /\ x_job_key.set /\ x_job_key.v # "0"
    /\ x_job_name.set /\ x_job_name.v # "Develop"

\* the number a code stands for
CodeValue(code) ==
    IF code.t = "int" THEN code.v
    ELSE CASE code.v = "1" -> 1
           [] code.v = "-1" -> -1
           [] code.v = "-2" -> -2
           [] code.v = "-3" -> -3

NonSuccessValues == {-1, -2, -3}

\* C13: ExitHandler called in a job context with the Success code as the
\* stages pass it, the string "1", ends the process with exit status 0.
C13_SuccessExitsZero ==
    (x_pc = "exited" /\ InJobContext /\ PyEq(x_result_code, PyStr("1"))) => x_status = 0

\* C14: ExitHandler called in a job context with a non-success code as the
\* stages pass it, the string "-1", "-2" or "-3", ends the process with the
\* exit status that is the number the code stands for.
C14_ErrorExitsWithCode ==
    (/\ x_pc = "exited"
     /\ InJobContext
     /\ x_result_code.t = "str"
     /\ CodeValue(x_result_code) \in NonSuccessValues) =>
        x_status = CodeValue(x_result_code)

\* what the interactive branch does: the code and the message are printed
\* and the exit status is 0
InteractiveExit ==
    /\ x_status = 0
    /\ x_printed = <<printed_text(x_result_code), "result_message">>

\* C15: with the job key and the job name both absent from the environment,
\* ExitHandler prints the code and the message and exits with status 0 for
\* every result code; with the job key or the job name present, the
\* interactive rule does not apply: a code -1, -2 or -3 does not exit with 0.
C15_InteractiveWhenAbsent ==
    /\ (x_pc = "exited" /\ ~x_job_key.set /\ ~x_job_name.set) => InteractiveExit
    /\ (/\ x_pc = "exited"
        /\ x_job_key.set \/ x_job_name.set
        /\ CodeValue(x_result_code) \in NonSuccessValues) =>
          x_status # 0

\* the run is interactive: the job key, "0" when absent, is "0" and the job
\* name, "Develop" when absent, is "Develop"
Interactive == EffectiveJobKey = "0" /\ EffectiveJobName = "Develop"

\* C15, amended: in an interactive run ExitHandler prints the code and the
\* message and exits with status 0 for every result code, -1, -2 and -3
\* included; in every other run a code -1, -2 or -3 does not exit with 0.
C15_InteractiveRule ==
    /\ (x_pc = "exited" /\ Interactive) => InteractiveExit
    /\ (x_pc = "exited" /\ ~Interactive
          /\ CodeValue(x_result_code) \in NonSuccessValues) =>
          x_status # 0

C15_Witness ==
    /\ x_pc = "exited"
    /\ x_job_key = EnvSet("0") /\ x_job_name = Unset
    /\ PyEq(x_result_code, PyStr("-3"))
    /\ x_status = 0


(***************************************************************************)
(* Properties of the compressor.                                           *)
(***************************************************************************)
\* the batch size the caller asks for: an empty text means 1
RequestedBatchSize ==
    IF files_per_batch = <<>> THEN [raised |-> FALSE, v |-> 1]
    ELSE py_int(files_per_batch)

\* the caller asks for batches of at least one file
PositiveBatchSize == ~RequestedBatchSize.raised /\ RequestedBatchSize.v >= 1

RECURSIVE Flatten(_)
Flatten(lists) == IF lists = <<>> THEN <<>> ELSE Head(lists) \o Flatten(Tail(lists))

CeilDiv(a, b) == (a + b - 1) \div b

\* C16: for a batch size of at least one (an empty files_per_batch meaning
\* 1), the matched file list is cut into consecutive batches of exactly
\* batch size files, the last one possibly shorter and never empty: the
\* batches concatenated are the file list and there are ceil(n / batch size)
\* of them.
C16_Batches ==
    (c_pc \notin {"idle", "call"} /\ PositiveBatchSize) =>
        LET size == RequestedBatchSize.v
        IN  /\ c_exc # "ValueError"
            /\ Flatten(batches) = file_list
            /\ Len(batches) = CeilDiv(Len(file_list), size)
            /\ \A b \in 1 .. Len(batches) :
                  /\ b < Len(batches) => Len(batches[b]) = size
                  /\ Len(batches[b]) >= 1 /\ Len(batches[b]) <= size

C16_Witness ==
    /\ c_pc = "returned"
    /\ files_per_batch = <<"2">>
    /\ Len(file_list) = 5
    /\ batches = << <<1, 2>>, <<3, 4>>, <<5>> >>

\* C17: a failure, exception or crash, of one file's conversion keeps no
\* other file from producing its output, in the same batch or in a later
\* one, and does not abort the caller: for a batch size of at least one no
\* exception leaves the call, and when the call has returned every file
\* whose own conversion succeeds has its output.
C17_FailureIsolated ==
    PositiveBatchSize =>
        /\ c_exc = ""
        /\ c_pc = "returned" =>
              \A f \in 1 .. Len(c_state) : c_fate[f] = "ok" => c_state[f] = "done"

\* the batches a file is in
BatchesOf(f) == {k \in 1 .. Len(batches) : f \in Range(batches[k])}

\* the worker of a file has started and not ended
Running(f) == c_state[f] = "running"

\* the work of a file is over: its worker ended, or the broken pool gave it up
Finished(f) == c_state[f] \in {"done", "failed", "crashed", "lost"}

\* C26: batches are processed strictly one after another and the files of a
\* batch concurrently: while a worker of a batch runs, every file of every
\* earlier batch is finished and no file of a later batch was submitted, and
\* when the call has returned every file of every batch is finished.
C26_BatchesInTurn ==
    /\ \A f \in 1 .. Len(c_state) :
          Running(f) =>
              \A k \in BatchesOf(f), g \in 1 .. Len(c_state) :
                  /\ (\E j \in BatchesOf(g) : j < k) => Finished(g)
                  /\ (\E j \in BatchesOf(g) : j > k) => c_state[g] = "none"
    /\ c_pc = "returned" =>
          \A g \in 1 .. Len(c_state) : BatchesOf(g) # {} => Finished(g)

\* two workers of the second batch run at once after the first batch ended
C26_Witness ==
    /\ Len(batches) >= 2
    /\ \E f, g \in Range(batches[2]) : f # g /\ Running(f) /\ Running(g)
    /\ \A h \in Range(batches[1]) : Finished(h)


(***************************************************************************)
(* Properties of the extractors.                                           *)
(***************************************************************************)
\* the extract call has ended: it returned a result or an exception left it
ExtractEnded == e_pc \in {"returned", "raised"}

\* C18: in both backends, when the external extraction process fails the
\* extract call returns the Error code -2 as its result: it never reports
\* FatalError (-3) and no exception leaves the call.
C18_ProcessFailureIsError ==
    e_proc = "failed" =>
        /\ e_ret_code = "-2"
        /\ e_exc = ""
        /\ ExtractEnded => e_pc = "returned"

\* C19: <table>.dat and <table>.sql_tmp are deleted exactly when the
\* conversion has succeeded: after a successful extraction and conversion
\* the call returns Success with both files gone, and no file is deleted
\* when the process or the conversion failed.
C19_TempFilesDeleted ==
    /\ (ExtractEnded /\ e_proc = "ok" /\ e_converted = "ok") =>
          /\ e_pc = "returned" /\ e_ret_code = "1"
          /\ e_dat = "absent" /\ ~e_sql_tmp
    /\ (e_proc = "failed" \/ e_converted = "failed") => e_deleted = {}

\* the audit events of the extract call that report a failure: all but the
\* two that report a step that went well
FailureEvents ==
    SelectSeq(e_audit, LAMBDA e : e.msg \notin {"completed", "Parquet file created"})

\* C23: a failure caught by a stage results in exactly one audit event for
\* that failure: when the extract call has ended after its external process
\* failed, the audit trail holds exactly one event reporting the failure.
C23_OneEventPerFailure ==
    (ExtractEnded /\ e_proc = "failed") => Len(FailureEvents) = 1

\* C24: no exception escapes a stage: the extract call never ends by an
\* exception leaving it, also when the raw file is missing or unparsable
\* at conversion time.
C24_NoExceptionEscapes ==
    e_pc # "raised" /\ e_exc = ""

\* the conversion of the raw file was attempted
ConversionAttempted == e_converted # ""

\* C27: a failed extraction process short-circuits the remaining steps, in
\* both backends: after the process has failed no conversion is attempted,
\* no parquet file is written and no "Parquet file created" event is
\* emitted.
C27_FailureShortCircuits ==
    e_proc = "failed" =>
        /\ ~ConversionAttempted
        /\ e_parquet # "new"
        /\ \A i \in 1..Len(e_audit) : e_audit[i].msg # "Parquet file created"


(***************************************************************************)
(* Properties of the loader.                                               *)
(***************************************************************************)
\* crsr.execute returned a response and the audit sink accepted the events
ResponseReported ==
    /\ l_pc \in {"returned", "exited"}
    /\ l_sink = << <<"1">> >>

\* the response has no result row
ZeroRowResponse == l_results = <<>>

\* C20: a bulk-load response with zero result rows is a non-error outcome:
\* the loader ends neither with the Error code nor through the error exit,
\* and it reports a "no rows loaded" message, distinct from the summary of
\* rows loaded.
C20_ZeroRowsReported ==
    (ResponseReported /\ ZeroRowResponse) =>
        /\ l_pc = "returned"
        /\ l_exit_call = <<>>
        /\ l_ret_code # <<"-", "2">>
        /\ \A i \in 1 .. Len(l_audit) : l_audit[i].status # "E"
        /\ \E i \in 1 .. Len(l_audit) : l_audit[i].kind = "no rows"

\* the events of one kind in the audit trail of the loader, in order
EventsOfKind(kind) == SelectSeq(l_audit, LAMBDA e : e.kind = kind)

\* the sum of the rows the events state
RECURSIVE SumRows(_)
SumRows(events) ==
    IF events = <<>> THEN 0 ELSE Head(events).rows + SumRows(Tail(events))

\* the loader has ended: it returned or the process was ended
LoaderEnded == l_pc \in {"returned", "exited"}

\* C21: on every path of the loader, rows returned, no rows returned or
\* driver error, exactly one summary event is emitted, and it states the sum
\* of the rows of the per-file events and the number of those events.
C21_OneSummary ==
    LoaderEnded =>
        /\ Len(EventsOfKind("summary")) = 1
        /\ EventsOfKind("summary")[1].rows = SumRows(EventsOfKind("file"))
        /\ EventsOfKind("summary")[1].files = Len(EventsOfKind("file"))


\* C25: every audit event emitted from a failure handler of the load path
\* carries a diagnostic text of at most 1023 characters, whatever the length
\* of the exception text and whichever exception class was caught.
C25_DiagnosticBounded ==
    \A i \in 1..Len(l_audit) :
        l_audit[i].kind = "error" => l_audit[i].len <= MsgLimit

\* C30: the totals of the summary event agree with the per-file events
\* emitted before it, also when a result row that does not unpack is met
\* after some rows were reported: the summary states the sum of the rows and
\* the number of the per-file events.
C30_TotalsAgree ==
    \A i \in 1..Len(l_audit) :
        l_audit[i].kind = "summary" =>
            /\ l_audit[i].rows = SumRows(SelectSeq(SubSeq(l_audit, 1, i - 1),
                                                  LAMBDA e : e.kind = "file"))
            /\ l_audit[i].files = Len(SelectSeq(SubSeq(l_audit, 1, i - 1),
                                                LAMBDA e : e.kind = "file"))

(***************************************************************************)
(* Properties of the paths of a batch.                                     *)
(***************************************************************************)

\* C29: within one batch no two workers write the same output path and no
\* worker's output path is the input path of another worker of the batch,
\* for every set of files file_pattern can match and for both methods.
C29_PathsDisjoint ==
    o_pc = "named" =>
        \A f, g \in o_batch :
            (f # g /\ o_output[f] # <<>>) =>
                /\ o_output[f] # o_output[g]
                /\ o_output[f] # g

(***************************************************************************)
(* Properties of parse_path.                                               *)
(***************************************************************************)

\* C22: parse_path never returns an empty extension: whenever it returns,
\* with or without a wildcard in the file name, the extension it returns is
\* not empty.
C22_ExtensionNonEmpty ==
    pp_pc = "returned" => pp_file_extension # <<>>

(***************************************************************************)
(* Properties of wait_for_file.                                            *)
(***************************************************************************)
\* the directory source_path names is not in the file system
DirMissing == fix_path(source_path) \notin Dirs

\* the pattern the call waits for: the trigger file when one is named
WaitedKind == IF trigger_given THEN "trigger" ELSE "data"

TimeoutMsgs == {"WaitLimitReached", "InvalidWaitResponse"}

Elapsed == now - start_time

\* C1: a call whose source directory does not exist returns FatalError (-3)
\* at once: no find_files call, no sleep and no time spent, whatever
\* check_exist, wait_response and wait_time are.
C1_MissingDirFatal ==
    DirMissing =>
        /\ w_pc \in {"call", "done"}
        /\ finds = 0 /\ sleeps = 0 /\ now = 0
        /\ w_pc = "done" => (w_ret_code = "-3" /\ w_ret_msg = "FolderNotFound")

C1_Witness ==
    /\ w_pc = "done" /\ DirMissing /\ w_ret_code = "-3"
    /\ check_exist = "true" /\ wait_time = MaxWait /\ wait_response = "Warning"

\* C2: when the directory exists and a file matching the wait pattern is
\* there at the first check, the call returns Success (1) from that check,
\* with no sleep, for every wait_time, check_exist and wait_response.
C2_PresentAtFirstCheck ==
    [][(w_pc = "first" /\ WaitedKind \in files /\ w_pc' # "first") =>
          (/\ w_pc' = "done" /\ w_ret_code' = "1" /\ w_ret_msg' = "FileFound"
           /\ sleeps' = 0 /\ finds' = 1 /\ now' = start_time)]_vars

C2_Witness ==
    /\ w_pc = "done" /\ w_ret_code = "1" /\ finds = 1 /\ sleeps = 0
    /\ wait_time = 0 /\ check_exist = "false" /\ wait_response = ""
    /\ trigger_given /\ files = {"trigger"}

\* the timeout policy as the specification states it
PolicyCode(response) ==
    CASE response = "Error" -> "-2"
      [] response = "Fatal Error" -> "-3"
      [] response = "Warning" -> "-1"
      [] OTHER -> "-3"

\* C3: a call that ends because the wait limit was reached returns the code
\* of the timeout policy (Error -2, Fatal Error -3, Warning -1, any other
\* value -3); it never returns Success, and Success is only returned for a
\* file that was found.
C3_TimeoutPolicy ==
    /\ [][(w_pc = "loop" /\ w_pc' = "done" /\ finds' = finds) =>
            (/\ w_ret_code' = PolicyCode(wait_response)
             /\ w_ret_code' # "1"
             /\ w_ret_msg' \in TimeoutMsgs
             /\ Round(Elapsed) >= wait_time)]_vars
    /\ [][(w_pc' = "done" /\ w_ret_msg' \in TimeoutMsgs) =>
            (w_pc = "loop" /\ finds' = finds
             /\ w_ret_code' = PolicyCode(wait_response))]_vars

C3_Witness ==
    /\ w_pc = "done" /\ w_ret_msg = "InvalidWaitResponse"
    /\ wait_response = "FatalError" /\ w_ret_code = "-3" /\ sleeps >= 2

\* C4: in the no-wait mode (check_exist is "false"), when the directory
\* exists and no matching file is there at the first check, the call returns
\* FatalError (-3) from that check: the loop is never entered, there is no
\* sleep and no second find_files call.
C4_NoWaitMode ==
    [][(w_pc = "first" /\ check_exist = "false" /\ WaitedKind \notin files
         /\ w_pc' # "first") =>
          (/\ w_pc' = "done" /\ w_ret_code' = "-3"
           /\ w_ret_msg' = "NotFoundCheckExistFalse"
           /\ sleeps' = 0 /\ finds' = 1 /\ poll_finds' = 0)]_vars

C4_Witness ==
    /\ w_pc = "done" /\ check_exist = "false"
    /\ w_ret_msg = "NotFoundCheckExistFalse" /\ w_ret_code = "-3"
    /\ wait_time = MaxWait /\ wait_response = "Warning" /\ finds = 1

\* what holds of the polling loop in every state
C5_Bounded ==
    /\ w_pc = "loop" => poll_finds = sleeps
    /\ w_pc = "sleep" => poll_finds = sleeps + 1
    /\ w_pc = "done" => poll_finds \in {sleeps, sleeps + 1}
    /\ last_poll # -1 => last_poll < wait_time * TicksPerSecond
    /\ Elapsed <= (wait_time + SleepSeconds) * TicksPerSecond

\* C5: every call returns; the loop makes one find_files call per sleep of
\* 5 seconds, makes none once the elapsed time has reached wait_time, and
\* the call has returned by wait_time plus one polling interval.
C5_Returns ==
    /\ <>(w_pc = "done")
    /\ []C5_Bounded
    /\ [][sleeps' # sleeps =>
            (sleeps' = sleeps + 1 /\ now' - now >= SleepTicks
             /\ now' - now <= SleepTicks + MaxDrift)]_vars

C5_Witness ==
    /\ w_pc = "done" /\ w_ret_msg = "WaitLimitReached" /\ sleeps = 3
    /\ poll_finds = 3 /\ Elapsed > wait_time * TicksPerSecond

\* the ticks passed since the call read the clock
ElapsedTicks == now - start_time

\* the call returned a timeout
TimedOut == w_pc = "done" /\ w_ret_msg \in TimeoutMsgs

\* C28: wait_for_file returns a timeout only if the file has not arrived
\* before wait_time elapsed: when the awaited file arrives strictly before
\* wait_time seconds have elapsed, and stays, the call returns Success, and
\* a timeout is never returned earlier than wait_time seconds after the call.
C28_TimeoutOnlyAtLimit ==
    /\ (w_pc = "done" /\ arrived_early) => w_ret_code = "1"
    /\ TimedOut => ElapsedTicks >= wait_time * TicksPerSecond

=============================================================================
